---- MODULE Spec2Model ----
(***************************************************************************)
(* Tiling3D (tiralib/tiramisu/tiramisu_actions/tiling_3d.py): binding of   *)
(* the action to an iteration tree, generation of its string               *)
(* representations, candidate enumeration and the fusion-level walk.       *)
(*                                                                         *)
(* The TiramisuTree and IteratorNode classes are not part of the source    *)
(* files at hand; their data model and operations follow spec.md           *)
(* (sections 3 and 4.1).                                                   *)
(***************************************************************************)
EXTENDS Integers, Sequences, FiniteSets, TLC

VARIABLES
    tree,        \* the TiramisuTree handed to the action (the source tree)
    self,        \* the Tiling3D object, NoObject before construction
    candidates,  \* the value returned by the last call of Tiling3D.get_candidates
    err,         \* exception raised by the last operation, "none" otherwise
    walk,        \* the frame of a running get_fusion_levels call
    calls        \* the methods the last operation invoked, in order

vars == <<tree, self, candidates, err, walk, calls>>

----------------------------------------------------------------------------
(* Bounds of the model *)

MaxIters == 3          \* iterators in a tree that actions are bound to
MaxComps == 2          \* computations in a tree
MaxSectionIters == 4   \* iterators in a tree whose candidates are enumerated
MaxWalkIters == 4      \* iterators in a tree whose fusion levels are computed

(* Python's None, as a 1-tuple so that it compares with identifiers and    *)
(* lists.                                                                  *)
None == <<"None">>

(* An attribute that may not have been assigned yet: <<>> until it is,     *)
(* <<value>> afterwards.                                                   *)
Unset == <<>>
Set(value) == <<value>>

IterNameList == <<"i", "j", "k", "l", "m", "n">>
CompNames == <<"c1", "c2", "c3", "c4">>
TileSizes == {<<32, 32, 32>>}

MaxOf(S) == IF S = {} THEN 0 ELSE CHOOSE x \in S : \A y \in S : y <= x

Levels == 0 .. (MaxIters - 1)
MaxLevels == MaxOf({MaxIters, MaxSectionIters, MaxWalkIters})
CompsUpTo(m) == {CompNames[k] : k \in 1 .. m}

----------------------------------------------------------------------------
(* Generic list helpers (Python list semantics on TLA+ sequences) *)

Range(s) == {s[k] : k \in DOMAIN s}

IsIn(x, s) == \E k \in DOMAIN s : s[k] = x

RECURSIVE InsertByKey(_, _, _)
InsertByKey(x, s, key) ==
    IF s = <<>> THEN <<x>>
    ELSE IF key[x] < key[Head(s)] THEN <<x>> \o s
    ELSE <<Head(s)>> \o InsertByKey(x, Tail(s), key)

(* list.sort(key=...): a stable sort, ascending in key *)
RECURSIVE SortByKey(_, _)
SortByKey(s, key) ==
    IF s = <<>> THEN <<>>
    ELSE LET n == Len(s)
         IN InsertByKey(s[n], SortByKey(SubSeq(s, 1, n - 1), key), key)

Orderings(S) ==
    {p \in [1 .. Cardinality(S) -> S] : \A a, b \in DOMAIN p : a # b => p[a] # p[b]}

----------------------------------------------------------------------------
(* IteratorNode and TiramisuTree (spec.md section 3) *)

(* An iterator identifier is the pair (name, level). *)
(* All identifiers of a set, as a list ordered by level and then by name *)
IdList(S) ==
    LET all == [k \in 1 .. (MaxLevels * Len(IterNameList)) |->
                  <<IterNameList[((k - 1) % Len(IterNameList)) + 1],
                    (k - 1) \div Len(IterNameList)>>]
    IN SelectSeq(all, LAMBDA id : id \in S)

IteratorNode(id, parent, children, comps_here) ==
    [name |-> id[1], level |-> id[2], id |-> id,
     parent_iterator |-> parent, child_iterators |-> children,
     computations_list |-> comps_here]

(* Absolute order: rank k - 1 for the k-th name of a list of computations *)
RankOf(order) == [c \in Range(order) |-> (CHOOSE k \in DOMAIN order : order[k] = c) - 1]

(* The tree made of the iterators I with the given parent links, the       *)
(* computations of at (computation -> innermost iterator), the absolute    *)
(* order `order` and the list `computations`.                              *)
MakeTree(I, parent, at, order, computations) ==
    [iterators |->
        [id \in I |->
            IteratorNode(id, parent[id],
                         IdList({ch \in I : parent[ch] = id}),
                         SelectSeq(order, LAMBDA c : at[c] = id))],
     computations |-> computations,
     computations_absolute_order |-> RankOf(order)]

(* A forest of n iterators: par[h] is the parent of iterator h (0 for a   *)
(* root) and nm[h] its name.  A non-root iterator's level is its parent's  *)
(* level + 1.                                                              *)
RECURSIVE LevelOf(_, _)
LevelOf(par, h) == IF par[h] = 0 THEN 0 ELSE LevelOf(par, par[h]) + 1

RECURSIVE AncestorsOf(_, _)
AncestorsOf(par, h) == IF par[h] = 0 THEN {} ELSE {par[h]} \cup AncestorsOf(par, par[h])

NameIndex(name) == CHOOSE k \in DOMAIN IterNameList : IterNameList[k] = name

(* Names identify iterators together with the level; no loop is nested in  *)
(* a loop of its own name.  Names are interchangeable, so forests are      *)
(* taken up to renaming: iterator h has one of the names of the iterators  *)
(* before it or the first name of IterNameList not yet in use.             *)
WellNamed(n, par, nm) ==
    /\ \A h \in 1 .. n :
          NameIndex(nm[h]) <= 1 + MaxOf({NameIndex(nm[g]) : g \in 1 .. (h - 1)})
    /\ \A h \in 1 .. n : \A a \in AncestorsOf(par, h) : nm[a] # nm[h]
    /\ \A g, h \in 1 .. n :
          (g # h /\ nm[g] = nm[h]) => LevelOf(par, g) # LevelOf(par, h)

IsLeaf(I, parent, id) == \A ch \in I : parent[ch] # id

(* Every iterator exists because some computation runs under it. *)
Placements(I, parent, C) ==
    {at \in [C -> I] : \A id \in I : IsLeaf(I, parent, id) => \E c \in C : at[c] = id}

(* Computations are named by their place in the program: the k-th name is *)
(* the k-th computation in absolute order.                                 *)
AbsoluteOrders(m) == {[k \in 1 .. m |-> CompNames[k]]}

Reverse(s) == [k \in 1 .. Len(s) |-> s[Len(s) + 1 - k]]

(* The list tree.computations holds the computations in absolute order or  *)
(* in the opposite order.                                                  *)
ListOrders(order) == {order, Reverse(order)}

IsTreeWithin(t, maxIters, maxComps) ==
    \E n \in 1 .. maxIters :
    \E par \in [1 .. n -> 0 .. (n - 1)] :
       /\ \A h \in 1 .. n : par[h] < h
       /\ \E nm \in [1 .. n -> {IterNameList[k] : k \in 1 .. n}] :
          /\ \A h \in 1 .. n : NameIndex(nm[h]) <= h
          /\ WellNamed(n, par, nm)
          /\ LET IdOf(h) == <<nm[h], LevelOf(par, h)>>
                 I == {IdOf(h) : h \in 1 .. n}
                 parent == [id \in I |->
                              LET h == CHOOSE h \in 1 .. n : IdOf(h) = id
                              IN IF par[h] = 0 THEN None ELSE IdOf(par[h])]
             IN \E m \in 1 .. maxComps :
                \E at \in Placements(I, parent, CompsUpTo(m)) :
                \E order \in AbsoluteOrders(m) :
                \E computations \in ListOrders(order) :
                    t = MakeTree(I, parent, at, order, computations)

IsTree(t) == IsTreeWithin(t, MaxIters, MaxComps)

----------------------------------------------------------------------------
(* TiramisuTree operations (spec.md section 4.1) *)

Comps(t) == DOMAIN t.computations_absolute_order

(* Is anc the iterator id itself or one of its ancestors? *)
RECURSIVE IsAncestorOrSelf(_, _, _)
IsAncestorOrSelf(t, anc, id) ==
    \/ anc = id
    \/ /\ t.iterators[id].parent_iterator # None
       /\ IsAncestorOrSelf(t, anc, t.iterators[id].parent_iterator)

InnermostId(t, comp) ==
    CHOOSE id \in DOMAIN t.iterators : IsIn(comp, t.iterators[id].computations_list)

(* get_iterator_of_computation(comp): the innermost iterator of the       *)
(* computation (level omitted).                                            *)
get_iterator_of_computation(t, comp) == t.iterators[InnermostId(t, comp)]

(* Can get_iterator_of_computation(comp, level) find an iterator? *)
CanResolve(t, comp, level) ==
    /\ comp \in Comps(t)
    /\ level \in 0 .. get_iterator_of_computation(t, comp).level

(* get_iterator_of_computation(comp, level): the iterator of the           *)
(* computation's chain at the given level.                                 *)
get_iterator_of_computation_at(t, comp, level) ==
    t.iterators[CHOOSE id \in DOMAIN t.iterators :
                    id[2] = level /\ IsAncestorOrSelf(t, id, InnermostId(t, comp))]

(* get_iterator_subtree_computations(iterator_id): every computation whose *)
(* iterator chain passes through the iterator, in absolute-order rank.     *)
get_iterator_subtree_computations(t, iterator_id) ==
    LET under == {c \in Comps(t) : IsAncestorOrSelf(t, iterator_id, InnermostId(t, c))}
        byRank == [k \in 1 .. Cardinality(Comps(t)) |->
                     CHOOSE c \in Comps(t) : t.computations_absolute_order[c] = k - 1]
    IN SelectSeq(byRank, LAMBDA c : c \in under)

----------------------------------------------------------------------------
(* Tiling3D.get_fusion_levels (tiling_3d.py lines 145-189) *)

(* The move made with the iterator's own id instead of its parent's *)
ParentNodeOwnId(t, node) == t.iterators[node.id]

(* Lines 168-170 and 176-178: the move to the parent iterator *)
ParentNode(t, node) == t.iterators[node.parent_iterator]

(* The while loop of lines 160-178 on the pair of current iterators: the   *)
(* value of fusion_level after line 182.                                   *)
RECURSIVE SharedLevel(_, _, _)
SharedLevel(t, iter_comp_1, iter_comp_2) ==
    IF iter_comp_1.name = iter_comp_2.name THEN iter_comp_1.level
    ELSE IF iter_comp_1.level > iter_comp_2.level
         THEN IF iter_comp_1.parent_iterator = None THEN -1
              ELSE SharedLevel(t, ParentNode(t, iter_comp_1), iter_comp_2)
         ELSE IF iter_comp_2.parent_iterator = None THEN -1
              ELSE SharedLevel(t, iter_comp_1, ParentNode(t, iter_comp_2))

(* The offset applied as soon as one of the two computations is a target *)
TargetOffsetEitherTarget(comps, comp1, comp2) ==
    IF IsIn(comp1, comps) \/ IsIn(comp2, comps) THEN 3 ELSE 0

(* Lines 184-185: the offset for a pair of target computations *)
TargetOffset(comps, comp1, comp2) ==
    IF IsIn(comp1, comps) /\ IsIn(comp2, comps) THEN 3 ELSE 0

(* One iteration of the for loop of line 153 *)
PairFusionLevel(comps, t, comp1, comp2) ==
    SharedLevel(t, get_iterator_of_computation(t, comp1),
                   get_iterator_of_computation(t, comp2))
    + TargetOffset(comps, comp1, comp2)

get_fusion_levels(comps, ordered_computations, t) ==
    [k \in 1 .. (Len(ordered_computations) - 1) |->
        PairFusionLevel(comps, t, ordered_computations[k], ordered_computations[k + 1])]

----------------------------------------------------------------------------
(* Tiling3D.__init__ (lines 22-53) *)

(* No Tiling3D object yet *)
NoObject == [exists |-> FALSE]


NewTiling3D(params, comps) ==
    [exists |-> TRUE,
     params |-> params,
     comps |-> comps,
     iterators |-> <<params[1], params[2], params[3]>>,
     tile_sizes |-> <<params[4], params[5], params[6]>>,
     tree |-> Unset,
     tiramisu_optim_str |-> Unset,
     str_representation |-> Unset,
     legality_check_string |-> Unset]

----------------------------------------------------------------------------
(* Tiling3D.set_string_representations (lines 84-117) *)

(* The asserts of lines 85-87 *)
AssertsPass(obj) ==
    /\ Len(obj.params) = 6
    /\ obj.iterators # None
    /\ obj.comps # None

(* all_comps left in the order of tree.computations (no sort) *)
AllCompsUnsorted(t) == t.computations

(* Lines 89-94: all_comps is the tree's own list, sorted in place when it  *)
(* holds more than one computation.                                        *)
AllCompsAfterSort(t) ==
    IF Len(t.computations) > 1
    THEN SortByKey(t.computations, t.computations_absolute_order)
    ELSE t.computations

(* Line 95: get_fusion_levels is called under the test of line 91 only *)
CallsOfRepresentations(t) ==
    IF Len(t.computations) > 1 THEN <<"get_fusion_levels">> ELSE <<>>

TreeAfterRepresentations(t) == [t EXCEPT !.computations = AllCompsAfterSort(t)]

LoopLevelsAndFactors(obj) ==
    <<obj.iterators[1][2], obj.iterators[2][2], obj.iterators[3][2],
      obj.tile_sizes[1], obj.tile_sizes[2], obj.tile_sizes[3]>>

(* Lines 106-109: one tile statement per target computation *)
TileStatements(obj) ==
    [k \in 1 .. Len(obj.comps) |->
        [op |-> "tile", comp |-> obj.comps[k], args |-> LoopLevelsAndFactors(obj)]]

(* Lines 110-111: the re-linearization statement,                          *)
(* all_comps[0].then(comp, fusion_level)... over zip(all_comps[1:], levels) *)
ThenStatements(obj, t) ==
    LET all_comps == AllCompsAfterSort(t)
    IN IF Len(all_comps) > 1
       THEN LET fusion_levels == get_fusion_levels(obj.comps, all_comps, t)
                rest == Tail(all_comps)
                n == IF Len(rest) < Len(fusion_levels) THEN Len(rest) ELSE Len(fusion_levels)
            IN << [op |-> "then", comp |-> all_comps[1],
                   args |-> [k \in 1 .. n |-> <<rest[k], fusion_levels[k]>>]] >>
       ELSE <<>>

ObjAfterRepresentations(obj, t) ==
    LET optim == TileStatements(obj) \o ThenStatements(obj, t)
    IN [obj EXCEPT
          !.tiramisu_optim_str = Set(optim),
          !.str_representation = Set(<<"T3", LoopLevelsAndFactors(obj), obj.comps>>),
          !.legality_check_string = Set(optim)]

----------------------------------------------------------------------------
(* Tiling3D.initialize_action_for_tree (lines 55-82) *)

(* Lines 58-62: an identifier that is no key of tree.iterators is resolved *)
(* through get_iterator_of_computation, whose result's id replaces it.     *)
ResolveIterator(t, iterator) ==
    IF iterator \in DOMAIN t.iterators THEN iterator
    ELSE get_iterator_of_computation_at(t, iterator[1], iterator[2]).id

Resolvable(t, iterator) ==
    iterator \in DOMAIN t.iterators \/ CanResolve(t, iterator[1], iterator[2])

(* The comparison of line 67 made with <=, so that the last of several     *)
(* iterators of the smallest level is taken                                *)
OutermostIteratorIdLastWins(iterators) ==
    LET after2 == IF iterators[2][2] <= iterators[1][2] THEN iterators[2] ELSE iterators[1]
    IN IF iterators[3][2] <= after2[2] THEN iterators[3] ELSE after2

(* Lines 65-68: the outermost of the three iterators *)
OutermostIteratorId(iterators) ==
    LET after2 == IF iterators[2][2] < iterators[1][2] THEN iterators[2] ELSE iterators[1]
    IN IF iterators[3][2] < after2[2] THEN iterators[3] ELSE after2

(* Lines 64-80 *)
DerivedComps(copy, iterators) ==
    LET outermost_iterator == copy.iterators[OutermostIteratorId(iterators)]
    IN SortByKey(get_iterator_subtree_computations(copy, outermost_iterator.id),
                 copy.computations_absolute_order)

(* Lines 57-80: the object before its call of set_string_representations *)
ObjAfterBinding(obj, t) ==
    LET copy == t
        its == [k \in 1 .. 3 |-> ResolveIterator(copy, obj.iterators[k])]
    IN [obj EXCEPT
          !.tree = Set(copy),
          !.iterators = its,
          !.comps = IF obj.comps = None THEN DerivedComps(copy, its) ELSE obj.comps]

----------------------------------------------------------------------------
(* Inputs *)

(* The three iterator parameters: three ids of the tree, or three levels   *)
(* of one computation's loop nest, outermost first.                        *)
SymbolicTriples(t) ==
    UNION {{<<<<c, l1>>, <<c, l2>>, <<c, l3>>>> :
              l1 \in 0 .. (l2 - 1), l3 \in (l2 + 1) .. (MaxIters - 1)} :
           c \in Comps(t), l2 \in Levels}

IteratorTriples(t) ==
    (DOMAIN t.iterators) \X (DOMAIN t.iterators) \X (DOMAIN t.iterators)
    \cup {its \in SymbolicTriples(t) : CanResolve(t, its[3][1], its[3][2])}

(* Explicit target lists *)
CompLists(t) ==
    {SelectSeq(t.computations, LAMBDA c : c \in S) : S \in (SUBSET Comps(t)) \ {{}}}

(* Do the three parameters name three nested loops, outermost first? *)
NestedLoops(t, its) ==
    LET ids == [k \in 1 .. 3 |-> ResolveIterator(t, its[k])]
    IN /\ ids[1] # ids[2] /\ IsAncestorOrSelf(t, ids[1], ids[2])
       /\ ids[2] # ids[3] /\ IsAncestorOrSelf(t, ids[2], ids[3])

(* The target list given with the parameters: omitted, or (for three       *)
(* nested loops) an explicit list.                                         *)
TargetChoices(t, its) ==
    {None} \cup (IF NestedLoops(t, its) THEN CompLists(t) ELSE {})

----------------------------------------------------------------------------
(* Operations *)

Construct ==
    /\ self = NoObject
    /\ \E its \in IteratorTriples(tree), sizes \in TileSizes :
       \E comps \in TargetChoices(tree, its) :
          self' = NewTiling3D(its \o sizes, comps)
    /\ err' = "none"
    /\ calls' = <<>>
    /\ UNCHANGED <<tree, candidates, walk>>

initialize_action_for_tree ==
    /\ self.exists
    /\ \A k \in 1 .. 3 : Resolvable(tree, self.iterators[k])
    /\ LET bound == ObjAfterBinding(self, tree)
       IN /\ self' = ObjAfterRepresentations(bound, tree)
          /\ tree' = TreeAfterRepresentations(tree)
    /\ err' = "none"
    /\ calls' = <<"set_string_representations">> \o CallsOfRepresentations(tree)
    /\ UNCHANGED <<candidates, walk>>

(* A direct call of set_string_representations(tree) that passes the asserts *)
set_string_representations ==
    /\ self.exists
    /\ AssertsPass(self)
    /\ self' = ObjAfterRepresentations(self, tree)
    /\ tree' = TreeAfterRepresentations(tree)
    /\ err' = "none"
    /\ calls' = CallsOfRepresentations(tree)
    /\ UNCHANGED <<candidates, walk>>

(* A direct call that fails one of the asserts of lines 85-87 *)
set_string_representations_fails ==
    /\ self.exists
    /\ ~AssertsPass(self)
    /\ err' = "AssertionError"
    /\ calls' = <<>>
    /\ UNCHANGED <<tree, self, candidates, walk>>

----------------------------------------------------------------------------
(* Tiling3D.get_candidates (lines 119-143) *)

Roots(t) == IdList({id \in DOMAIN t.iterators : t.iterators[id].parent_iterator = None})

RECURSIVE Flatten(_)
Flatten(lists) == IF lists = <<>> THEN <<>> ELSE Head(lists) \o Flatten(Tail(lists))

(* The chain that starts at an iterator and runs down while the current    *)
(* iterator has exactly one child iterator.                                *)
RECURSIVE ChainFrom(_, _)
ChainFrom(t, id) ==
    IF Len(t.iterators[id].child_iterators) = 1
    THEN <<id>> \o ChainFrom(t, t.iterators[id].child_iterators[1])
    ELSE <<id>>

(* The sections under an iterator: its chain down to the next branch point *)
(* or leaf, then the sections under each child of the branch point.        *)
RECURSIVE SectionsFrom(_, _)
SectionsFrom(t, id) ==
    LET chain == ChainFrom(t, id)
        last == t.iterators[chain[Len(chain)]]
    IN <<chain>> \o
       Flatten([k \in 1 .. Len(last.child_iterators) |->
                  SectionsFrom(t, last.child_iterators[k])])

(* get_candidate_sections(): root id -> list of sections (spec.md 4.1) *)
get_candidate_sections(t) ==
    [root_id \in Range(Roots(t)) |-> SectionsFrom(t, root_id)]

(* The windows taken over range(len(section) - 3): the last one is lost *)
Successive3IteratorsOneShort(section) ==
    IF Len(section) > 2
    THEN [i \in 1 .. (Len(section) - 3) |-> <<section[i], section[i + 1], section[i + 2]>>]
    ELSE <<>>

(* Lines 131-141: the triples one section contributes *)
Successive3Iterators(section) ==
    IF Len(section) > 2
    THEN [i \in 1 .. (Len(section) - 2) |-> <<section[i], section[i + 1], section[i + 2]>>]
    ELSE <<>>

(* Lines 128-141: candidates[root_id] after the loop over the sections *)
RECURSIVE ExtendWithSections(_, _)
ExtendWithSections(found, sections) ==
    IF sections = <<>> THEN found
    ELSE ExtendWithSections(found \o Successive3Iterators(Head(sections)), Tail(sections))

get_candidates_result(program_tree) ==
    LET candidate_sections == get_candidate_sections(program_tree)
    IN [root_id \in DOMAIN candidate_sections |->
          ExtendWithSections(<<>>, candidate_sections[root_id])]

NoCandidates == [returned |-> FALSE]

get_candidates ==
    /\ candidates' = [returned |-> TRUE, value |-> get_candidates_result(tree)]
    /\ err' = "none"
    /\ calls' = <<"get_candidate_sections">>
    /\ UNCHANGED <<tree, self, walk>>

----------------------------------------------------------------------------
(* Tiling3D.get_fusion_levels (lines 145-189), statement by statement *)

NoWalk ==
    [pc |-> "idle", ordered_computations |-> <<>>, k |-> 0,
     iter_comp_1 |-> Unset, iter_comp_2 |-> Unset,
     fusion_level |-> <<>>, fusion_levels |-> <<>>, steps |-> 0]

(* The lists get_fusion_levels is called with: the computations in         *)
(* absolute order, or a pair followed by its first computation again.      *)
OrderedLists(t) ==
    {AllCompsAfterSort(t)}
    \cup {<<p[1], p[2], p[1]>> : p \in {q \in Comps(t) \X Comps(t) : q[1] # q[2]}}

(* The call, with fusion_levels = [] (line 150) *)
WalkCall ==
    /\ walk.pc \in {"idle", "done"}
    /\ self.exists /\ self.comps # None
    /\ \E ordered \in OrderedLists(tree) :
          walk' = [NoWalk EXCEPT !.pc = "for", !.ordered_computations = ordered]
    /\ err' = "none"
    /\ calls' = <<>>
    /\ UNCHANGED <<tree, self, candidates>>

(* Lines 153-157: the next pair of itertools.pairwise, or the return of    *)
(* line 189 when the pairs are exhausted.                                  *)
WalkFor ==
    /\ walk.pc = "for"
    /\ IF walk.k + 1 < Len(walk.ordered_computations)
       THEN walk' = [walk EXCEPT
                !.pc = "while",
                !.k = walk.k + 1,
                !.iter_comp_1 =
                    get_iterator_of_computation(tree, walk.ordered_computations[walk.k + 1]),
                !.iter_comp_2 =
                    get_iterator_of_computation(tree, walk.ordered_computations[walk.k + 2]),
                !.fusion_level = <<>>,
                !.steps = 0]
       ELSE walk' = [walk EXCEPT !.pc = "done"]
    /\ UNCHANGED <<tree, self, candidates, err, calls>>

(* Lines 160-178: one test of the loop condition and one pass of the body *)
WalkWhile ==
    /\ walk.pc = "while"
    /\ IF walk.iter_comp_1.name = walk.iter_comp_2.name
       THEN walk' = [walk EXCEPT !.pc = "resolve"]
       ELSE IF walk.iter_comp_1.level > walk.iter_comp_2.level
            THEN IF walk.iter_comp_1.parent_iterator = None
                 THEN walk' = [walk EXCEPT !.fusion_level = <<-1>>, !.pc = "resolve",
                                           !.steps = walk.steps + 1]
                 ELSE walk' = [walk EXCEPT
                          !.iter_comp_1 = ParentNode(tree, walk.iter_comp_1),
                          !.steps = walk.steps + 1]
            ELSE IF walk.iter_comp_2.parent_iterator = None
                 THEN walk' = [walk EXCEPT !.fusion_level = <<-1>>, !.pc = "resolve",
                                           !.steps = walk.steps + 1]
                 ELSE walk' = [walk EXCEPT
                          !.iter_comp_2 = ParentNode(tree, walk.iter_comp_2),
                          !.steps = walk.steps + 1]
    /\ UNCHANGED <<tree, self, candidates, err, calls>>

(* Lines 181-182 *)
WalkResolve ==
    /\ walk.pc = "resolve"
    /\ walk' = [walk EXCEPT
          !.pc = "offset",
          !.fusion_level = IF walk.fusion_level = <<>>
                           THEN <<walk.iter_comp_1.level>>
                           ELSE walk.fusion_level]
    /\ UNCHANGED <<tree, self, candidates, err, calls>>

(* Lines 184-187 *)
WalkOffset ==
    /\ walk.pc = "offset"
    /\ LET comp1 == walk.ordered_computations[walk.k]
           comp2 == walk.ordered_computations[walk.k + 1]
           fusion_level == walk.fusion_level[1] + TargetOffset(self.comps, comp1, comp2)
       IN walk' = [walk EXCEPT
             !.pc = "for",
             !.fusion_level = <<fusion_level>>,
             !.fusion_levels = Append(walk.fusion_levels, fusion_level)]
    /\ UNCHANGED <<tree, self, candidates, err, calls>>

----------------------------------------------------------------------------
(* Specifications *)

(* Binding and representation of one action on one tree *)
Init ==
    /\ IsTree(tree)
    /\ self = NoObject
    /\ candidates = NoCandidates
    /\ err = "none"
    /\ walk = NoWalk
    /\ calls = <<>>

Next ==
    \/ Construct
    \/ initialize_action_for_tree
    \/ set_string_representations
    \/ set_string_representations_fails

Spec == Init /\ [][Next]_vars

(* Candidate enumeration on a tree *)
InitCand ==
    /\ IsTreeWithin(tree, MaxSectionIters, MaxComps)
    /\ self = NoObject
    /\ candidates = NoCandidates
    /\ err = "none"
    /\ walk = NoWalk
    /\ calls = <<>>

NextCand == get_candidates

SpecCand == InitCand /\ [][NextCand]_vars

(* Calls of get_fusion_levels on an action with a given target list *)
InitWalk ==
    /\ IsTreeWithin(tree, MaxWalkIters, MaxComps)
    /\ tree.computations = AllCompsAfterSort(tree)
    /\ \E comps \in CompLists(tree) \cup {<<>>}, sizes \in TileSizes :
          LET root == Roots(tree)[1]
          IN self = NewTiling3D(<<root, root, root>> \o sizes, comps)
    /\ candidates = NoCandidates
    /\ err = "none"
    /\ walk = NoWalk
    /\ calls = <<>>

NextWalk ==
    \/ WalkCall
    \/ WalkFor
    \/ WalkWhile
    \/ WalkResolve
    \/ WalkOffset

SpecWalk == InitWalk /\ [][NextWalk]_vars

----------------------------------------------------------------------------
(* Properties *)

Rank(c) == tree.computations_absolute_order[c]

(* Has self.tree been assigned, that is, has the action been bound? *)
Bound == self.exists /\ self.tree # Unset

Targets == Range(self.comps)

(* The iterators that are an ancestor of both (or are one of them and an   *)
(* ancestor of the other), by identifier.                                  *)
CommonAncestors(id1, id2) ==
    {a \in DOMAIN tree.iterators :
        IsAncestorOrSelf(tree, a, id1) /\ IsAncestorOrSelf(tree, a, id2)}

DeepestCommonLevel(id1, id2) ==
    CHOOSE l \in {a[2] : a \in CommonAncestors(id1, id2)} :
        \A a \in CommonAncestors(id1, id2) : a[2] <= l

(* The pairs a running or finished call has produced a level for *)
WalkedPairs == DOMAIN walk.fusion_levels
Comp1(k) == walk.ordered_computations[k]
Comp2(k) == walk.ordered_computations[k + 1]

(* C1: binding never changes the tree handed to initialize_action_for_tree *)
(* (its attributes, the order of tree.computations included).              *)
C1_BindingLeavesSourceTree == [][initialize_action_for_tree => tree' = tree]_vars

(* C2: a pair that is not wholly in the target list and whose innermost    *)
(* iterators have a common ancestor gets the level of the deepest common   *)
(* ancestor, with no offset.                                               *)
C2_DeepestCommonAncestorLevel ==
    \A k \in WalkedPairs :
        LET id1 == InnermostId(tree, Comp1(k))
            id2 == InnermostId(tree, Comp2(k))
        IN (/\ ~(Comp1(k) \in Targets /\ Comp2(k) \in Targets)
            /\ CommonAncestors(id1, id2) # {})
           => walk.fusion_levels[k] = DeepestCommonLevel(id1, id2)

(* C3: a pair whose innermost iterators have no common ancestor gets the   *)
(* sentinel -1, whatever the target list.                                  *)
C3_NoCommonAncestorSentinel ==
    \A k \in WalkedPairs :
        CommonAncestors(InnermostId(tree, Comp1(k)), InnermostId(tree, Comp2(k))) = {}
        => walk.fusion_levels[k] = -1

(* C4: with the target list fixed, the level computed for (c1, c2) equals  *)
(* the level computed for (c2, c1).                                        *)
C4_FusionSymmetry ==
    \A j \in WalkedPairs, k \in WalkedPairs :
        (Comp1(j) = Comp2(k) /\ Comp2(j) = Comp1(k))
        => walk.fusion_levels[j] = walk.fusion_levels[k]

(* C5: the level appended for a pair is the resolved level plus 3 when     *)
(* both computations are targets, and the resolved level itself otherwise. *)
C5_OffsetExactlyForTargetPairs ==
    [][WalkOffset =>
        LET k == walk.k
            appended == walk'.fusion_levels[Len(walk'.fusion_levels)]
            resolved == walk.fusion_level[1]
        IN /\ Len(walk'.fusion_levels) = k
           /\ (Comp1(k) \in Targets /\ Comp2(k) \in Targets) => appended = resolved + 3
           /\ ~(Comp1(k) \in Targets /\ Comp2(k) \in Targets) => appended = resolved]_vars

C5_Witness ==
    /\ walk.pc = "done"
    /\ Len(walk.fusion_levels) = 2
    /\ Comp1(1) \in Targets /\ Comp2(1) \in Targets
    /\ walk.fusion_levels[1] >= 3

(* C6: with the target list omitted, binding derives the computations of   *)
(* the subtree of the outermost resolved iterator parameter (smallest      *)
(* level, the earliest parameter on equal levels), in non-decreasing       *)
(* absolute-order rank.                                                    *)
C6_DerivedTargets ==
    [][(initialize_action_for_tree /\ self.comps = None) =>
        LET its == self'.iterators
            first == CHOOSE k \in 1 .. 3 :
                        /\ \A j \in 1 .. 3 : its[k][2] <= its[j][2]
                        /\ \A j \in 1 .. (k - 1) : its[j][2] > its[k][2]
        IN /\ \A k \in 1 .. 3 : its[k] \in DOMAIN tree.iterators
           /\ self'.comps = get_iterator_subtree_computations(tree, its[first])
           /\ \A a, b \in DOMAIN self'.comps :
                 a < b => Rank(self'.comps[a]) <= Rank(self'.comps[b])]_vars

(* A bound action whose first two parameters are different iterators of    *)
(* the same level, the third one deeper, with the first one's subtree as   *)
(* targets and another target set under the second.                        *)
C6_Witness ==
    /\ Bound
    /\ self.iterators[1] # self.iterators[2]
    /\ self.iterators[1][2] = self.iterators[2][2]
    /\ self.iterators[3][2] > self.iterators[1][2]
    /\ self.comps = get_iterator_subtree_computations(tree, self.iterators[1])
    /\ self.comps # get_iterator_subtree_computations(tree, self.iterators[2])

(* C7: get_candidates returns, for every root of get_candidate_sections,   *)
(* the windows of 3 consecutive iterators of every section of length >= 3  *)
(* (L - 2 of them, in section order), nothing for shorter sections, and    *)
(* triples of iterators only.                                              *)
WindowCount(section) == IF Len(section) >= 3 THEN Len(section) - 2 ELSE 0

RECURSIVE WindowsBefore(_, _)
WindowsBefore(sections, k) ==
    IF k <= 1 THEN 0 ELSE WindowsBefore(sections, k - 1) + WindowCount(sections[k - 1])

C7_CandidateWindows ==
    candidates.returned =>
        LET sections == get_candidate_sections(tree)
        IN /\ DOMAIN candidates.value = DOMAIN sections
           /\ \A root \in DOMAIN sections :
                LET found == candidates.value[root]
                    secs == sections[root]
                IN /\ Len(found) = WindowsBefore(secs, Len(secs) + 1)
                   /\ \A k \in DOMAIN secs : \A i \in 1 .. WindowCount(secs[k]) :
                         found[WindowsBefore(secs, k) + i]
                             = <<secs[k][i], secs[k][i + 1], secs[k][i + 2]>>
                   /\ \A n \in DOMAIN found :
                         Len(found[n]) = 3 /\ Range(found[n]) \subseteq DOMAIN tree.iterators

(* A result with the two windows of a section of 4 iterators *)
C7_Witness ==
    /\ candidates.returned
    /\ \E root \in DOMAIN candidates.value :
          /\ Len(candidates.value[root]) = 2
          /\ \E sec \in Range(get_candidate_sections(tree)[root]) : Len(sec) = 4

(* C8: the re-linearization statement is emitted exactly when the program  *)
(* has more than one computation; it names every computation once, in      *)
(* ascending absolute-order rank, each after the first with the fusion     *)
(* level of the pair it forms with its predecessor.  With one computation  *)
(* get_fusion_levels is not called.                                        *)
Generated == self.exists /\ self.str_representation # Unset

OptimStr == self.tiramisu_optim_str[1]

ThenOf(optim) == SelectSeq(optim, LAMBDA st : st.op = "then")

C8_Relinearization ==
    Generated =>
        LET thens == ThenOf(OptimStr)
            n == Cardinality(Comps(tree))
        IN /\ Len(thens) = (IF n > 1 THEN 1 ELSE 0)
           /\ n = 1 => ~IsIn("get_fusion_levels", calls)
           /\ Len(OptimStr) = Len(self.comps) + Len(thens)
           /\ n > 1 =>
                LET st == thens[1]
                    names == <<st.comp>> \o [k \in DOMAIN st.args |-> st.args[k][1]]
                IN /\ Len(st.args) = n - 1
                   /\ Range(names) = Comps(tree)
                   /\ \A k \in 1 .. (n - 1) : Rank(names[k]) < Rank(names[k + 1])
                   /\ \A k \in 1 .. (n - 1) :
                         st.args[k][2]
                             = PairFusionLevel(self.comps, tree, names[k], names[k + 1])
                   /\ OptimStr[Len(OptimStr)] = st

(* A bound action on a tree whose computations list was not in absolute    *)
(* order, with the statement emitted.                                      *)
C8_Witness ==
    /\ Generated /\ Bound
    /\ Cardinality(Comps(tree)) > 1
    /\ self.tree[1].computations # tree.computations
    /\ Len(ThenOf(OptimStr)) = 1

(* C9: set_string_representations on an action that was never bound fails  *)
(* and generates no string, whether the target list was given or omitted.  *)
C9_UnboundCallFails ==
    [][(/\ self.exists /\ ~Bound
        /\ (set_string_representations \/ set_string_representations_fails))
       => (err' = "AssertionError" /\ self' = self)]_vars

(* C10: every pass of the loop body stops with the sentinel or replaces    *)
(* one of the two current iterators by its parent; the passes for a pair   *)
(* number at most depth(c1) + depth(c2); a finished call has produced one  *)
(* level per adjacent pair.                                                *)
Depth(c) == get_iterator_of_computation(tree, c).level + 1

InLoop == walk.pc \in {"while", "resolve", "offset"}

C10_WalkTerminates ==
    /\ [](InLoop => walk.steps <= Depth(Comp1(walk.k)) + Depth(Comp2(walk.k)))
    /\ [](walk.pc = "done" =>
            Len(walk.fusion_levels) = Len(walk.ordered_computations) - 1)
    /\ [][(WalkWhile /\ walk.iter_comp_1.name # walk.iter_comp_2.name) =>
            /\ walk'.steps = walk.steps + 1
            /\ \/ walk'.pc = "resolve" /\ walk'.fusion_level = <<-1>>
               \/ /\ walk'.pc = "while"
                  /\ walk.iter_comp_1.parent_iterator # None
                  /\ walk'.iter_comp_1 = tree.iterators[walk.iter_comp_1.parent_iterator]
                  /\ walk'.iter_comp_2 = walk.iter_comp_2
               \/ /\ walk'.pc = "while"
                  /\ walk.iter_comp_2.parent_iterator # None
                  /\ walk'.iter_comp_2 = tree.iterators[walk.iter_comp_2.parent_iterator]
                  /\ walk'.iter_comp_1 = walk.iter_comp_1]_vars

(* A finished call on a list of three computations whose second pair       *)
(* needed two passes of the loop body.                                     *)
C10_Witness ==
    /\ walk.pc = "done"
    /\ Len(walk.fusion_levels) = 2
    /\ walk.steps >= 2

====
